---- MODULE Spec2Model ----
(***************************************************************************)
(* Model of CdnConstruct (ops/src/lib/constructs/staticWebsite/cdn.ts):    *)
(* the constructor that emits, statement by statement, an origin access    *)
(* identity, an IAM policy document, a bucket policy, a public access      *)
(* block and a CloudFront distribution as children of the construct.       *)
(*                                                                         *)
(* An optional value (a property that may be undefined) is a set with at   *)
(* most one element: Undefined is {}, Some(v) is {v}.  An attribute of a   *)
(* resource that the provider computes (arn, id, iamArn, ...) is a token,  *)
(* a reference [ref, attr], as cdktf's Token.asString yields; a template   *)
(* string is the sequence of its parts.                                    *)
(***************************************************************************)
EXTENDS Integers, Sequences, FiniteSets, TLC

VARIABLES
  props,                  \* the ICdnConstructProps of the running invocation
  pc,                     \* the constructor's next statement, "done" or "thrown"
  children,               \* the resources registered under the construct, in order
  cloudfrontDistribution, \* this.cloudfrontDistribution
  prev,                   \* the props and the graph of the invocation before
  created                 \* the nodes the provisioning engine has created

vars == <<props, pc, children, cloudfrontDistribution, prev, created>>

----------------------------------------------------------------------------
(* Inputs *)

MaxDomains == 2

Undefined == {}
Some(v) == {v}

Domains == {"example.com", "www.example.com"}
Certificates == {"cert-123"}

\* A deployment names its resources by a prefix and owns one website bucket.
Sites ==
  {[resourceNamesPrefix |-> "site1", websiteS3Bucket |-> "bucket-abc"],
   [resourceNamesPrefix |-> "site2", websiteS3Bucket |-> "bucket-xyz"]}

DomainLists == UNION {[1..n -> Domains] : n \in 0..MaxDomains}

ICdnConstructProps ==
  {[acmCertificate |-> c,
    domainNames |-> d,
    enableHttps |-> h,
    hasBuildCommand |-> b,
    resourceNamesPrefix |-> s.resourceNamesPrefix,
    websiteS3Bucket |-> s.websiteS3Bucket] :
     c \in {Undefined} \cup {Some(x) : x \in Certificates},
     d \in DomainLists, h \in BOOLEAN, b \in BOOLEAN, s \in Sites}

\* The value of prev before any invocation has ended.
NoPrev == [pc |-> "none"]

\* Token.asString(resource.attr): a reference resolved by the provider.
Token(ref, attr) == [ref |-> ref, attr |-> attr]

----------------------------------------------------------------------------
(* The resources, as the constructor's arguments spell them *)

websiteOriginID(p) == p.resourceNamesPrefix

OAIName == "cloudfront_OAI"
PolicyDocumentName == "cloudfront_OAI_role_policy_document"
BucketPolicyName == "cloudfront_s3_bucket_policy"
PublicAccessBlockName == "cloudfront_s3_bucket_public_access_block"
DistributionName == "cloudfront_distribution"

\* Mutant: the identity is named afresh on a later invocation.
cloudfrontOriginAccessIdentityRenamed ==
  [type |-> "CloudfrontOriginAccessIdentity",
   id |-> IF prev = NoPrev THEN OAIName ELSE "cloudfront_OAI_2",
   config |-> [comment |-> "bifrost_summary"]]

cloudfrontOriginAccessIdentity ==
  [type |-> "CloudfrontOriginAccessIdentity",
   id |-> OAIName,
   config |-> [comment |-> "bifrost_summary"]]

\* Mutant: a second identity, not of this construct, is trusted as well.
PrincipalsBroadened ==
  <<[type |-> "AWS",
     identifiers |->
       <<Token(OAIName, "iamArn"), Token("shared_OAI", "iamArn")>>]>>

Principals ==
  <<[type |-> "AWS", identifiers |-> <<Token(OAIName, "iamArn")>>]>>

PolicyResources(p) ==
  << <<Token(p.websiteS3Bucket, "arn")>>,
     <<Token(p.websiteS3Bucket, "arn"), "/*">> >>

PolicyActions ==
  <<"s3:GetObject", "s3:GetObjectVersion", "s3:ListBucket",
    "s3:GetBucketAcl", "s3:GetBucketLocation">>

buildRolePolicyDocument(p) ==
  [type |-> "DataAwsIamPolicyDocument",
   id |-> PolicyDocumentName,
   config |->
     [version |-> "2012-10-17",
      statement |->
        <<[effect |-> "Allow",
           actions |-> PolicyActions,
           resources |-> PolicyResources(p),
           principals |-> Principals]>>]]

S3BucketPolicy(p) ==
  [type |-> "S3BucketPolicy",
   id |-> BucketPolicyName,
   config |->
     [bucket |-> Token(p.websiteS3Bucket, "id"),
      policy |-> Token(PolicyDocumentName, "json")]]

\* Mutant: all four flags strict.
S3BucketPublicAccessBlockAllStrict(p) ==
  [type |-> "S3BucketPublicAccessBlock",
   id |-> PublicAccessBlockName,
   config |->
     [bucket |-> Token(p.websiteS3Bucket, "id"),
      blockPublicAcls |-> TRUE,
      blockPublicPolicy |-> TRUE,
      ignorePublicAcls |-> TRUE,
      restrictPublicBuckets |-> TRUE]]

S3BucketPublicAccessBlock(p) ==
  [type |-> "S3BucketPublicAccessBlock",
   id |-> PublicAccessBlockName,
   config |->
     [bucket |-> Token(p.websiteS3Bucket, "id"),
      blockPublicAcls |-> TRUE,
      blockPublicPolicy |-> TRUE,
      ignorePublicAcls |-> TRUE,
      restrictPublicBuckets |-> FALSE]]

\* Mutant: the aliases are passed whatever enableHttps says.
AliasesUnconditional(p) == Some(p.domainNames)

Aliases(p) == IF p.enableHttps THEN Some(p.domainNames) ELSE Undefined

Origin(p) ==
  <<[domainName |-> Token(p.websiteS3Bucket, "bucketRegionalDomainName"),
     originId |-> websiteOriginID(p),
     s3OriginConfig |->
       <<[originAccessIdentity |->
            Token(OAIName, "cloudfrontAccessIdentityPath")]>>]>>

\* Mutant: the response code is rewritten to 200 in both modes.
CustomErrorResponseAlways200(p) ==
  <<[errorCode |-> 403,
     responseCode |-> 200,
     responsePagePath |->
       IF p.hasBuildCommand THEN "/index.html" ELSE "/error.html"]>>

CustomErrorResponse(p) ==
  <<[errorCode |-> 403,
     responseCode |-> IF p.hasBuildCommand THEN 200 ELSE 403,
     responsePagePath |->
       IF p.hasBuildCommand THEN "/index.html" ELSE "/error.html"]>>

\* Mutant: the cache behaviour targets an origin named after the bucket.
DefaultCacheBehaviorOtherTarget(p) ==
  <<[targetOriginId |-> p.websiteS3Bucket,
     allowedMethods |->
       <<"DELETE", "GET", "HEAD", "OPTIONS", "PATCH", "POST", "PUT">>,
     cachedMethods |-> <<"GET", "HEAD">>,
     viewerProtocolPolicy |-> "redirect-to-https",
     forwardedValues |->
       <<[queryString |-> FALSE, cookies |-> <<[forward |-> "none"]>>]>>]>>

\* Mutant: the redirection to HTTPS is made to follow enableHttps.
DefaultCacheBehaviorByHttps(p) ==
  <<[targetOriginId |-> websiteOriginID(p),
     allowedMethods |->
       <<"DELETE", "GET", "HEAD", "OPTIONS", "PATCH", "POST", "PUT">>,
     cachedMethods |-> <<"GET", "HEAD">>,
     viewerProtocolPolicy |->
       IF p.enableHttps THEN "redirect-to-https" ELSE "allow-all",
     forwardedValues |->
       <<[queryString |-> FALSE, cookies |-> <<[forward |-> "none"]>>]>>]>>

DefaultCacheBehavior(p) ==
  <<[targetOriginId |-> websiteOriginID(p),
     allowedMethods |->
       <<"DELETE", "GET", "HEAD", "OPTIONS", "PATCH", "POST", "PUT">>,
     cachedMethods |-> <<"GET", "HEAD">>,
     viewerProtocolPolicy |-> "redirect-to-https",
     forwardedValues |->
       <<[queryString |-> FALSE, cookies |-> <<[forward |-> "none"]>>]>>]>>

Restrictions ==
  <<[geoRestriction |-> <<[restrictionType |-> "none"]>>]>>

\* props.acmCertificate.id is read only on the enableHttps branch; on an
\* undefined acmCertificate the read throws a TypeError.
ViewerCertificateThrows(p) ==
  p.enableHttps /\ p.acmCertificate = Undefined

\* Mutant: the certificate is bound with a dedicated IP instead of SNI.
ViewerCertificateVip(p) ==
  IF p.enableHttps
    THEN <<[acmCertificateArn |->
              {Token(c, "id") : c \in p.acmCertificate},
            sslSupportMethod |-> Some("vip"),
            cloudfrontDefaultCertificate |-> Undefined]>>
    ELSE <<[acmCertificateArn |-> Undefined,
            sslSupportMethod |-> Undefined,
            cloudfrontDefaultCertificate |-> Some(TRUE)]>>

ViewerCertificate(p) ==
  IF p.enableHttps
    THEN <<[acmCertificateArn |->
              {Token(c, "id") : c \in p.acmCertificate},
            sslSupportMethod |-> Some("sni-only"),
            cloudfrontDefaultCertificate |-> Undefined]>>
    ELSE <<[acmCertificateArn |-> Undefined,
            sslSupportMethod |-> Undefined,
            cloudfrontDefaultCertificate |-> Some(TRUE)]>>

\* Mutant: no dependency is declared.
DependsOnNothing(p) == <<>>

DependsOn(p) == <<p.websiteS3Bucket>>

CloudfrontDistribution(p) ==
  [type |-> "CloudfrontDistribution",
   id |-> DistributionName,
   config |->
     [enabled |-> TRUE,
      defaultRootObject |-> "index.html",
      aliases |-> Aliases(p),
      origin |-> Origin(p),
      customErrorResponse |-> CustomErrorResponse(p),
      defaultCacheBehavior |-> DefaultCacheBehavior(p),
      restrictions |-> Restrictions,
      viewerCertificate |-> ViewerCertificate(p),
      dependsOn |-> DependsOn(p)]]

----------------------------------------------------------------------------
(* The constructor, one action per statement *)

Init ==
  /\ props \in ICdnConstructProps
  /\ pc = "oai"
  /\ children = <<>>
  /\ cloudfrontDistribution = Undefined
  /\ prev = NoPrev
  /\ created = {}

NewCloudfrontOriginAccessIdentity ==
  /\ pc = "oai"
  /\ children' = Append(children, cloudfrontOriginAccessIdentity)
  /\ pc' = "policy_document"
  /\ UNCHANGED <<props, cloudfrontDistribution, prev, created>>

NewDataAwsIamPolicyDocument ==
  /\ pc = "policy_document"
  /\ children' = Append(children, buildRolePolicyDocument(props))
  /\ pc' = "bucket_policy"
  /\ UNCHANGED <<props, cloudfrontDistribution, prev, created>>

NewS3BucketPolicy ==
  /\ pc = "bucket_policy"
  /\ children' = Append(children, S3BucketPolicy(props))
  /\ pc' = "public_access_block"
  /\ UNCHANGED <<props, cloudfrontDistribution, prev, created>>

NewS3BucketPublicAccessBlock ==
  /\ pc = "public_access_block"
  /\ children' = Append(children, S3BucketPublicAccessBlock(props))
  /\ pc' = "distribution"
  /\ UNCHANGED <<props, cloudfrontDistribution, prev, created>>

\* The distribution's config is evaluated before the resource is registered:
\* a throw while evaluating it leaves the four earlier children in place.
NewCloudfrontDistribution ==
  /\ pc = "distribution"
  /\ IF ViewerCertificateThrows(props)
       THEN /\ pc' = "thrown"
            /\ UNCHANGED <<children, cloudfrontDistribution>>
       ELSE /\ children' = Append(children, CloudfrontDistribution(props))
            /\ cloudfrontDistribution' = Some(DistributionName)
            /\ pc' = "done"
  /\ UNCHANGED <<props, prev, created>>

\* The caller constructs the CDN again (a redeployment), with any props.
Reinvoke ==
  /\ pc \in {"done", "thrown"}
  /\ prev' = [pc |-> pc, props |-> props, children |-> children]
  /\ props' \in ICdnConstructProps
  /\ pc' = "oai"
  /\ children' = <<>>
  /\ cloudfrontDistribution' = Undefined
  /\ UNCHANGED created

Construct ==
  \/ NewCloudfrontOriginAccessIdentity
  \/ NewDataAwsIamPolicyDocument
  \/ NewS3BucketPolicy
  \/ NewS3BucketPublicAccessBlock
  \/ NewCloudfrontDistribution

Next == Construct \/ Reinvoke

Spec == Init /\ [][Next]_vars

----------------------------------------------------------------------------
(* The provisioning engine applying the emitted graph: it creates the nodes *)
(* in any order, a node only once the nodes it declares in dependsOn exist. *)

Range(s) == {s[i] : i \in DOMAIN s}

Nodes == {props.websiteS3Bucket} \cup {r.id : r \in Range(children)}

DeclaredDependencies(n) ==
  UNION {Range(r.config.dependsOn) :
           r \in {c \in Range(children) :
                    c.id = n /\ "dependsOn" \in DOMAIN c.config}}

EngineCreate(n) ==
  /\ pc = "done"
  /\ n \in Nodes \ created
  /\ DeclaredDependencies(n) \subseteq created
  /\ created' = created \cup {n}
  /\ UNCHANGED <<props, pc, children, cloudfrontDistribution, prev>>

Apply == \E n \in Nodes : EngineCreate(n)

NextEngine == Construct \/ Apply

SpecEngine == Init /\ [][NextEngine]_vars

----------------------------------------------------------------------------
(* Reading an emitted graph *)

OfType(g, t) == {r \in Range(g) : r.type = t}

Distributions == OfType(children, "CloudfrontDistribution")

ResourceTypes ==
  {"CloudfrontOriginAccessIdentity", "DataAwsIamPolicyDocument",
   "S3BucketPolicy", "S3BucketPublicAccessBlock", "CloudfrontDistribution"}

\* The number of resources of type t in graph g.
CountOfType(g, t) == Cardinality({i \in DOMAIN g : g[i].type = t})

Ended == pc \in {"done", "thrown"}

\* enableHttps without what it needs: an empty domain list or no certificate.
HttpsInputInvalid(p) ==
  p.enableHttps /\ (p.domainNames = <<>> \/ p.acmCertificate = Undefined)

\* A resource with what enableHttps may change blanked out.
OutsideHttps(r) ==
  IF r.type = "CloudfrontDistribution"
    THEN [r EXCEPT !.config.aliases = Undefined,
                   !.config.viewerCertificate = <<>>]
    ELSE r

----------------------------------------------------------------------------
(* The claims *)

\* C1 (as claimed; the code violates it): with enableHttps = true and an
\* empty domainNames list or no certificate, construction fails and no
\* resource is ever emitted.
C1_InvalidHttpsEmitsNothing ==
  HttpsInputInvalid(props) => (children = <<>> /\ pc # "done")

\* C2: with enableHttps = false, whatever domainNames and acmCertificate
\* hold, construction completes and the distribution has no alias list
\* (undefined, not an empty list), selects the default certificate and
\* carries no custom certificate reference.
C2_NoHttpsNoAliasesDefaultCertificate ==
  ~props.enableHttps =>
    /\ pc # "thrown"
    /\ pc = "done" => Distributions # {}
    /\ \A d \in Distributions :
         /\ d.config.aliases = Undefined
         /\ Len(d.config.viewerCertificate) = 1
         /\ d.config.viewerCertificate[1].cloudfrontDefaultCertificate
              = Some(TRUE)
         /\ d.config.viewerCertificate[1].acmCertificateArn = Undefined
         /\ d.config.viewerCertificate[1].sslSupportMethod = Undefined

C2_Witness ==
  /\ pc = "done"
  /\ ~props.enableHttps
  /\ props.domainNames # <<>>
  /\ props.acmCertificate # Undefined
  /\ Distributions # {}

\* C3: with enableHttps = true, a non-empty domainNames list and a
\* certificate, construction completes, the alias list is the input
\* domainNames (same elements, same order), and the viewer certificate
\* references the certificate's id with sni-only and is not the default one.
C3_HttpsAliasesAndCertificate ==
  (props.enableHttps /\ props.domainNames # <<>>
     /\ props.acmCertificate # Undefined) =>
    /\ pc # "thrown"
    /\ pc = "done" => Distributions # {}
    /\ \A d \in Distributions :
         /\ d.config.aliases = Some(props.domainNames)
         /\ Len(d.config.viewerCertificate) = 1
         /\ d.config.viewerCertificate[1].acmCertificateArn
              = {Token(c, "id") : c \in props.acmCertificate}
         /\ d.config.viewerCertificate[1].sslSupportMethod = Some("sni-only")
         /\ d.config.viewerCertificate[1].cloudfrontDefaultCertificate
              = Undefined

C3_Witness ==
  /\ pc = "done"
  /\ props.enableHttps
  /\ props.acmCertificate = Some("cert-123")
  /\ props.domainNames = <<"www.example.com", "example.com">>
  /\ Distributions # {}

\* C4: every emitted distribution has exactly one custom error response, for
\* error code 403: /index.html with code 200 when hasBuildCommand, otherwise
\* /error.html with code 403, whatever enableHttps is.
C4_ErrorResponseByBuildCommand ==
  /\ pc = "done" => Distributions # {}
  /\ \A d \in Distributions :
       /\ Len(d.config.customErrorResponse) = 1
       /\ d.config.customErrorResponse[1].errorCode = 403
       /\ d.config.customErrorResponse[1].responseCode
            = (IF props.hasBuildCommand THEN 200 ELSE 403)
       /\ d.config.customErrorResponse[1].responsePagePath
            = (IF props.hasBuildCommand THEN "/index.html" ELSE "/error.html")

C4_Witness ==
  /\ pc = "done"
  /\ ~props.hasBuildCommand
  /\ props.enableHttps
  /\ Distributions # {}

\* C5: every emitted policy document has a single Allow statement whose one
\* principal names one identifier, the iamArn of the origin access identity
\* that this invocation has emitted, and nothing else.
C5_OnlyOwnIdentityTrusted ==
  /\ pc \notin {"oai", "policy_document"} =>
       CountOfType(children, "DataAwsIamPolicyDocument") = 1
  /\ \A doc \in OfType(children, "DataAwsIamPolicyDocument") :
       /\ Len(doc.config.statement) = 1
       /\ doc.config.statement[1].effect = "Allow"
       /\ Len(doc.config.statement[1].principals) = 1
       /\ doc.config.statement[1].principals[1].type = "AWS"
       /\ Len(doc.config.statement[1].principals[1].identifiers) = 1
       /\ \E oai \in OfType(children, "CloudfrontOriginAccessIdentity") :
            doc.config.statement[1].principals[1].identifiers[1]
              = Token(oai.id, "iamArn")
       /\ CountOfType(children, "CloudfrontOriginAccessIdentity") = 1

C5_Witness ==
  /\ pc = "done"
  /\ props.enableHttps
  /\ props.hasBuildCommand
  /\ OfType(children, "DataAwsIamPolicyDocument") # {}

\* C6: every emitted public access block has blockPublicAcls,
\* blockPublicPolicy and ignorePublicAcls true and restrictPublicBuckets
\* false, for every input.
C6_LockdownFixed ==
  /\ pc \in {"distribution", "done", "thrown"} =>
       CountOfType(children, "S3BucketPublicAccessBlock") = 1
  /\ \A b \in OfType(children, "S3BucketPublicAccessBlock") :
       /\ b.config.blockPublicAcls = TRUE
       /\ b.config.blockPublicPolicy = TRUE
       /\ b.config.ignorePublicAcls = TRUE
       /\ b.config.restrictPublicBuckets = FALSE

C6_Witness ==
  /\ pc = "done"
  /\ ~props.enableHttps
  /\ props.hasBuildCommand
  /\ OfType(children, "S3BucketPublicAccessBlock") # {}

C8_HttpsToggleFrame ==
  (/\ prev.pc = "done"
   /\ pc = "done"
   /\ props = [prev.props EXCEPT !.enableHttps = ~prev.props.enableHttps]) =>
    /\ Len(children) = Len(prev.children)
    /\ \A i \in DOMAIN children :
         OutsideHttps(children[i]) = OutsideHttps(prev.children[i])

C8_Witness ==
  /\ prev.pc = "done"
  /\ pc = "done"
  /\ props = [prev.props EXCEPT !.enableHttps = ~prev.props.enableHttps]
  /\ props.domainNames # <<>>
  /\ \E i \in DOMAIN children : children[i] # prev.children[i]

\* C9: every emitted distribution declares its dependency on the website
\* bucket, and an engine that respects the declared dependencies never has
\* the distribution created while the bucket is not.
C9_BucketBeforeDistribution ==
  /\ \A d \in Distributions :
       props.websiteS3Bucket \in Range(d.config.dependsOn)
  /\ DistributionName \in created => props.websiteS3Bucket \in created

C9_Witness ==
  /\ DistributionName \in created
  /\ props.websiteS3Bucket \in created
  /\ created # Nodes

\* C10: every emitted distribution has exactly one origin, whose ID is
\* resourceNamesPrefix; its one default cache behaviour targets that origin;
\* and the origin reads the bucket through the origin access identity that
\* this invocation has emitted.
C10_OneOriginTargeted ==
  \A d \in Distributions :
    /\ Len(d.config.origin) = 1
    /\ d.config.origin[1].originId = props.resourceNamesPrefix
    /\ Len(d.config.defaultCacheBehavior) = 1
    /\ d.config.defaultCacheBehavior[1].targetOriginId
         \in {d.config.origin[i].originId : i \in DOMAIN d.config.origin}
    /\ d.config.origin[1].domainName
         = Token(props.websiteS3Bucket, "bucketRegionalDomainName")
    /\ Len(d.config.origin[1].s3OriginConfig) = 1
    /\ \E oai \in OfType(children, "CloudfrontOriginAccessIdentity") :
         d.config.origin[1].s3OriginConfig[1].originAccessIdentity
           = Token(oai.id, "cloudfrontAccessIdentityPath")

C10_Witness ==
  /\ pc = "done"
  /\ props.resourceNamesPrefix = "site2"
  /\ Distributions # {}

====
